---- MODULE Spec2Model ----
(***************************************************************************)
(* twitch_rss: an axum service that turns a Twitch channel's VODs into an  *)
(* RSS feed.  Two handlers (world: /:name/id, channel: /:name/vod) run a   *)
(* pipeline of three functions memoized by the `cached` crate's            *)
(* #[cached(time = .., result = true)] attribute: get_token, get_user_id   *)
(* and get_user_videos.                                                    *)
(*                                                                         *)
(* The attribute (without sync_writes) expands, for an async fn, to        *)
(*     let key = <convert>;                                                *)
(*     { let mut cache = CACHE.lock().await;                               *)
(*       if let Some(r) = cache.cache_get(&key) { return Ok(r.clone()); } }*)
(*     let result = inner(..).await;                                       *)
(*     let mut cache = CACHE.lock().await;                                 *)
(*     if let Ok(r) = &result { cache.cache_set(key, r.clone()); }         *)
(*     result                                                              *)
(* over a TimedCache::with_lifespan(time).  Each task therefore passes     *)
(* through three phases per stage: "get" (locked lookup), "inner" (the     *)
(* upstream call, no lock held) and "set" (locked store and return).       *)
(* Times are whole seconds, as Instant::elapsed().as_secs() yields.        *)
(***************************************************************************)
EXTENDS Integers, Sequences, FiniteSets, TLC

\* ---------------------------------------------------------------- bounds
MaxTicks == 2          \* the clock stops after MaxTicks steps
Tick == 600            \* the clock advances in steps of Tick seconds

\* ------------------------------------------------------ program constants
TokenTTL == 1200
UserTTL == 600
VideoTTL == 600
OK == 200
NOT_FOUND == 404
INTERNAL_SERVER_ERROR == 500
UNAUTHORIZED == 401
ThumbWidth == 512
ThumbHeight == 288

\* The requests the service receives, each served by its own task.
Tasks == {1, 2}
Stages == {"token", "resolver", "lister"}
Routes == {"id", "vod"}

\* The one credential pair of the process (AppState.client_id, client_secret).
Cred == <<"client_id", "client_secret">>

\* Channel names as they arrive in the path; Nickname keeps the spelling.
Names == {"chan", "Chan"}
\* The platform's logins and ids: the platform looks a login up ignoring case.
Login(name) == IF name = "Chan" THEN "chan" ELSE name
Logins == {Login(n) : n \in Names}
UserIdOf(login) == IF login = "chan" THEN 42 ELSE 7

\* ------------------------------------------------------------ error type
NoErr == [kind |-> "none", payload |-> ""]
Token(e) == [kind |-> "Token", payload |-> e]
UnknownChannel(ch) == [kind |-> "UnknownChannel", payload |-> ch]
Unauthorized == [kind |-> "Unauthorized", payload |-> ""]
RequestError(e) == [kind |-> "RequestError", payload |-> e]

\* impl fmt::Display for TwitchRssError, as a sequence of text pieces.
Display(err) ==
    CASE err.kind = "Token" -> <<"Token(", err.payload, ")">>
      [] err.kind = "UnknownChannel" -> <<"UnknownChannel(", err.payload, ")">>
      [] err.kind = "Unauthorized" -> <<"Unauthorized">>
      [] err.kind = "RequestError" -> <<"RequestError(", err.payload, ")">>

\* A status match that answers Unauthorized with 401.
StatusOfUnauthorized401(err) ==
    CASE err.kind = "Token" -> INTERNAL_SERVER_ERROR
      [] err.kind = "UnknownChannel" -> NOT_FOUND
      [] err.kind = "Unauthorized" -> UNAUTHORIZED
      [] err.kind = "RequestError" -> INTERNAL_SERVER_ERROR

\* The status match of TwitchRssError::into_response.
StatusOf(err) ==
    CASE err.kind = "Token" -> INTERNAL_SERVER_ERROR
      [] err.kind = "UnknownChannel" -> NOT_FOUND
      [] err.kind = "Unauthorized" -> INTERNAL_SERVER_ERROR
      [] err.kind = "RequestError" -> INTERNAL_SERVER_ERROR

\* A Result<V, TwitchRssError>; the value is wrapped in a 1-tuple.
Ok(v) == [ok |-> TRUE, val |-> <<v>>, err |-> NoErr]
Err(e) == [ok |-> FALSE, val |-> <<>>, err |-> e]
NoResult == [ok |-> FALSE, val |-> <<>>, err |-> NoErr]

\* ------------------------------------------------------- upstream errors
\* ClientRequestError values get_channel_from_login / req_get can return.
HelixError(status) == [variant |-> "HelixRequestGetError::Error", status |-> status]
TransportError == [variant |-> "RequestError", status |-> 0]

ErrorText(err) ==
    IF err.variant = "HelixRequestGetError::Error"
    THEN "helix returned error " \o ToString(err.status)
    ELSE "request failed"

\* An error mapping without the 401 arm.
handle_helix_error_generic(err) == RequestError(ErrorText(err))

handle_helix_error(err) ==
    IF err.variant = "HelixRequestGetError::Error" /\ err.status = UNAUTHORIZED
    THEN Unauthorized
    ELSE RequestError(ErrorText(err))

\* ---------------------------------------------------------- feed builder
Video1 == [id |-> "v1", title |-> "T", url |-> "https://vod/v1",
           thumbnail_url |-> <<"https://th/", "%{width}", "x", "%{height}", ".jpg">>,
           description |-> "", created_at |-> 1672531200]
Video2 == [id |-> "v2", title |-> "U", url |-> "https://vod/v2",
           thumbnail_url |-> <<"https://th2/", "%{height}", "-", "%{width}">>,
           description |-> "about", created_at |-> 1672617600]
\* The listings the platform can answer with.
VideoLists == {<<Video1, Video2>>, <<Video2, Video1>>}

\* str::replace over a text held as a sequence of pieces.
replace(s, from, to) == [i \in DOMAIN s |-> IF s[i] = from THEN to ELSE s[i]]

\* A layout that writes the description line even when it is empty.
build_description_unconditional(input) ==
    <<"<a href=\"", input.url, "\"><img src=\"">>
        \o replace(replace(input.thumbnail_url, "%{width}", ToString(ThumbWidth)),
                   "%{height}", ToString(ThumbHeight))
        \o <<"\" /></a>", "<br />", input.description, "<br />", input.title>>

build_description(input) ==
    LET thumbnail_url == replace(replace(input.thumbnail_url,
                                         "%{width}", ToString(ThumbWidth)),
                                 "%{height}", ToString(ThumbHeight))
        anchor == <<"<a href=\"", input.url, "\"><img src=\"">> \o thumbnail_url
                      \o <<"\" /></a>">>
        withDesc == IF input.description # ""
                    THEN anchor \o <<"<br />", input.description>>
                    ELSE anchor
    IN  withDesc \o <<"<br />", input.title>>

\* An item whose guid is its permalink.
video_to_rss_item_permalink(input) ==
    [guid |-> input.url,
     pub_date |-> <<"rfc2822", input.created_at>>,
     title |-> input.title,
     link |-> input.url,
     description |-> build_description(input)]

video_to_rss_item(input) ==
    [guid |-> input.id,
     pub_date |-> <<"rfc2822", input.created_at>>,
     title |-> input.title,
     link |-> input.url,
     description |-> build_description(input)]

\* ------------------------------------------------------------- the state
VARIABLES
    now,       \* the clock, in seconds
    cache,     \* cache[s]: the TimedCache store of stage s, key -> [value, stamp]
    minted,    \* number of tokens the authorization server has issued
    revoked,   \* tokens 1..revoked are rejected by the platform
    exists,    \* the logins that resolve on the platform
    pc,        \* pc[t]: "idle", "get", "inner", "set", "done", "dropped"
    req,       \* req[t]: the request's route and name
    stages,    \* stages[t]: the pipeline stages the request entered, in order
    token,     \* token[t]: the handler's local `token` (0: not yet bound)
    user_id,   \* user_id[t]: the handler's local `user_id` (0: not yet bound)
    inner,     \* inner[t]: the result of inner(..), awaiting the store
    result,    \* result[t]: what the handler returned
    resp,      \* resp[t]: the response sent
    hits,      \* hits[t]: the stages this request was served from the cache
    invoked,   \* invoked[t]: the stages whose producer this request called
    expired,   \* expired[t]: the current stage's lookup removed an expired entry
    dropped    \* dropped[t]: the phase in which the request was abandoned

vars == <<now, cache, minted, revoked, exists, pc, req, stages, token, user_id,
          inner, result, resp, hits, invoked, expired, dropped>>

env == <<now, minted, revoked, exists>>

NoReq == [route |-> "id", name |-> "chan"]
NoResp == [status |-> 0, content_type |-> "", body |-> <<>>]

Cur(t) == stages[t][Len(stages[t])]

TTL(s) == CASE s = "token" -> TokenTTL
            [] s = "resolver" -> UserTTL
            [] s = "lister" -> VideoTTL

\* The `convert` expression of each #[cached] attribute.
\* A key conversion that folds the handle's case.
KeyFolded(t, s) == CASE s = "token" -> Cred
                     [] s = "resolver" -> Login(req[t].name)
                     [] s = "lister" -> user_id[t]

Key(t, s) == CASE s = "token" -> Cred
               [] s = "resolver" -> req[t].name
               [] s = "lister" -> user_id[t]

\* The computations in flight for key k of stage s.
InFlight(s, k) == {t \in Tasks : pc[t] = "inner" /\ Cur(t) = s /\ Key(t, s) = k}

\* ---------------------------------------------------- TimedCache (cached)
\* TimedCache::cache_get: Found while elapsed().as_secs() < seconds; an
\* expired entry is removed and the lookup misses.
\* A freshness test that still serves the entry at the instant it expires.
FreshInclusive(s, entry) == now - entry.stamp <= TTL(s)

Fresh(s, entry) == now - entry.stamp < TTL(s)

Remove(store, k) == [x \in DOMAIN store \ {k} |-> store[x]]

\* A lookup that never finds its key.
cache_get_never(s, k) == [status |-> "miss", store |-> cache[s]]

\* A lookup that refreshes the entry it finds (TimedCache with refresh).
cache_get_refresh(s, k) ==
    IF k \notin DOMAIN cache[s] THEN [status |-> "miss", store |-> cache[s]]
    ELSE IF Fresh(s, cache[s][k])
         THEN [status |-> "hit",
               store |-> [cache[s] EXCEPT ![k].stamp = now]]
         ELSE [status |-> "expired", store |-> Remove(cache[s], k)]

cache_get(s, k) ==
    LET store == cache[s] IN
    IF k \notin DOMAIN store THEN [status |-> "miss", store |-> store]
    ELSE IF Fresh(s, store[k]) THEN [status |-> "hit", store |-> store]
    ELSE [status |-> "expired", store |-> Remove(store, k)]

\* A store that flushes the other keys of its cache.
cache_set_flush(s, k, v) == k :> [value |-> v, stamp |-> now]

\* TimedCache::cache_set: the entry is stamped with Instant::now().
cache_set(s, k, v) == (k :> [value |-> v, stamp |-> now]) @@ cache[s]

\* A store that also records failures (negative caching).
StoreAlways(s, k, r) ==
    IF r.ok THEN cache_set(s, k, r.val[1]) ELSE cache_set(s, k, 0)

\* `if let Ok(result) = &result { cache.cache_set(key, result.clone()); }`
Store(s, k, r) == IF r.ok THEN cache_set(s, k, r.val[1]) ELSE cache[s]

\* ------------------------------------------------------------ responses
\* Result<String, TwitchRssError> / Result<RssXml<String>, _> as a response.
IntoResponse(route, r) ==
    IF r.ok
    THEN [status |-> OK,
          content_type |-> IF route = "vod" THEN "application/rss+xml"
                           ELSE "text/plain",
          body |-> r.val[1]]
    ELSE [status |-> StatusOf(r.err), content_type |-> "text/plain",
          body |-> Display(r.err)]

\* A feed that lists the newest record last.
FeedReversed(name, videos) ==
    [title |-> <<name, " Twitch VODs">>,
     items |-> [i \in DOMAIN videos |->
                  video_to_rss_item(videos[Len(videos) + 1 - i])]]

\* ChannelBuilder .title(..).items(..).build() of `channel`.
Feed(name, videos) ==
    [title |-> <<name, " Twitch VODs">>,
     items |-> [i \in DOMAIN videos |-> video_to_rss_item(videos[i])]]

\* The handler returns r: its locals are dropped and the response is sent.
Finish(t, r, trail, h) ==
    /\ result' = [result EXCEPT ![t] = r]
    /\ resp' = [resp EXCEPT ![t] = IntoResponse(req[t].route, r)]
    /\ pc' = [pc EXCEPT ![t] = "done"]
    /\ stages' = [stages EXCEPT ![t] = trail]
    /\ hits' = [hits EXCEPT ![t] = h]
    /\ token' = [token EXCEPT ![t] = 0]
    /\ user_id' = [user_id EXCEPT ![t] = 0]
    /\ inner' = [inner EXCEPT ![t] = NoResult]
    /\ expired' = [expired EXCEPT ![t] = FALSE]

\* The handler enters its next cached function.
Enter(t, s, h) ==
    /\ stages' = [stages EXCEPT ![t] = Append(@, s)]
    /\ pc' = [pc EXCEPT ![t] = "get"]
    /\ hits' = [hits EXCEPT ![t] = h]
    /\ inner' = [inner EXCEPT ![t] = NoResult]
    /\ expired' = [expired EXCEPT ![t] = FALSE]
    /\ UNCHANGED <<result, resp>>

\* An early return that reports every failure as a RequestError.
propagate_masked(t, r, h) ==
    Finish(t, Err(RequestError("upstream failed")), stages[t], h)

\* A handler that goes on to the resolver without a token when the exchange
\* failed.
propagate_past_token(t, r, h) ==
    IF Cur(t) = "token"
    THEN /\ Enter(t, "resolver", h)
         /\ UNCHANGED <<token, user_id>>
    ELSE Finish(t, Err(r.err), stages[t], h)

\* The `?` after each stage's .await: the handler returns the stage's error.
propagate(t, r, h) == Finish(t, Err(r.err), stages[t], h)

\* `world` from the point where the stage it awaits returned r (h: the
\* stages served from the cache so far).
world(t, r, h) ==
    IF ~r.ok THEN propagate(t, r, h)
    ELSE IF Cur(t) = "token"
    THEN /\ token' = [token EXCEPT ![t] = r.val[1]]
         /\ Enter(t, "resolver", h)
         /\ UNCHANGED user_id
    ELSE Finish(t, Ok(ToString(r.val[1])), stages[t], h)

\* `channel` from the point where the stage it awaits returned r.
channel(t, r, h) ==
    IF ~r.ok THEN propagate(t, r, h)
    ELSE CASE Cur(t) = "token" ->
                /\ token' = [token EXCEPT ![t] = r.val[1]]
                /\ Enter(t, "resolver", h)
                /\ UNCHANGED user_id
           [] Cur(t) = "resolver" ->
                /\ user_id' = [user_id EXCEPT ![t] = r.val[1]]
                /\ Enter(t, "lister", h)
                /\ UNCHANGED token
           [] Cur(t) = "lister" ->
                Finish(t, Ok(Feed(req[t].name, r.val[1])),
                       Append(stages[t], "feed"), h)

Handler(t, r, h) ==
    IF req[t].route = "id" THEN world(t, r, h) ELSE channel(t, r, h)

\* ------------------------------------------------------------------ Init
Init ==
    /\ now = 0
    /\ cache = [s \in Stages |-> <<>>]
    /\ minted = 0
    /\ revoked = 0
    /\ exists = {}
    /\ pc = [t \in Tasks |-> "idle"]
    /\ req = [t \in Tasks |-> NoReq]
    /\ stages = [t \in Tasks |-> <<>>]
    /\ token = [t \in Tasks |-> 0]
    /\ user_id = [t \in Tasks |-> 0]
    /\ inner = [t \in Tasks |-> NoResult]
    /\ result = [t \in Tasks |-> NoResult]
    /\ resp = [t \in Tasks |-> NoResp]
    /\ hits = [t \in Tasks |-> {}]
    /\ invoked = [t \in Tasks |-> {}]
    /\ expired = [t \in Tasks |-> FALSE]
    /\ dropped = [t \in Tasks |-> ""]

\* --------------------------------------------------------------- actions
\* A request arrives: axum runs the handler, which first calls get_token.
\* Requests are numbered in their order of arrival.
Start(t, route, name) ==
    /\ pc[t] = "idle"
    /\ \A u \in Tasks : u < t => pc[u] # "idle"
    /\ pc' = [pc EXCEPT ![t] = "get"]
    /\ req' = [req EXCEPT ![t] = [route |-> route, name |-> name]]
    /\ stages' = [stages EXCEPT ![t] = <<"token">>]
    /\ UNCHANGED <<env, cache, token, user_id, inner, result, resp, hits,
                   invoked, expired, dropped>>

\* The locked lookup that opens every #[cached] function: a hit returns the
\* stored value to the handler, a miss calls inner(..).
cached_lookup(t) ==
    /\ pc[t] = "get"
    /\ LET s == Cur(t)
           k == Key(t, s)
           g == cache_get(s, k)
       IN  /\ cache' = [cache EXCEPT ![s] = g.store]
           /\ IF g.status = "hit"
              THEN /\ Handler(t, Ok(cache[s][k].value), hits[t] \cup {s})
                   /\ UNCHANGED invoked
              ELSE /\ pc' = [pc EXCEPT ![t] = "inner"]
                   /\ invoked' = [invoked EXCEPT ![t] = @ \cup {s}]
                   /\ expired' = [expired EXCEPT ![t] = (g.status = "expired")]
                   /\ UNCHANGED <<stages, token, user_id, inner, result, resp, hits>>
    /\ UNCHANGED <<env, req, dropped>>

\* A lookup that coalesces: on a miss while a computation for the key is in
\* flight it waits for that computation instead of starting its own.
CachedGetCoalesced(t) ==
    IF /\ pc[t] = "get"
       /\ InFlight(Cur(t), Key(t, Cur(t))) # {}
       /\ cache_get(Cur(t), Key(t, Cur(t))).status # "hit"
    THEN /\ pc' = [pc EXCEPT ![t] = "wait"]
         /\ UNCHANGED <<env, cache, req, stages, token, user_id, inner, result,
                        resp, hits, invoked, expired, dropped>>
    ELSE cached_lookup(t)

\* A lookup whose lock stays held across inner(..), as the macro generates
\* with sync_writes: it waits while any computation of its cache is in flight.
CachedGetLocked(t) ==
    /\ pc[t] = "get"
    /\ \A u \in Tasks \ {t} : ~(pc[u] \in {"inner", "set"} /\ Cur(u) = Cur(t))
    /\ cached_lookup(t)

\* A lookup that yields to every other request being served.
CachedGetYielding(t) ==
    /\ pc[t] = "get"
    /\ \A u \in Tasks \ {t} : pc[u] \notin {"get", "inner", "set"}
    /\ cached_lookup(t)

CachedGet(t) == cached_lookup(t)

\* The body of get_token: the credential exchange answers.
get_token(t) ==
    /\ pc[t] = "inner" /\ Cur(t) = "token"
    /\ \/ /\ minted' = minted + 1
          /\ inner' = [inner EXCEPT ![t] = Ok(minted + 1)]
       \/ /\ inner' = [inner EXCEPT ![t] = Err(Token("invalid client"))]
          /\ UNCHANGED minted
    /\ pc' = [pc EXCEPT ![t] = "set"]
    /\ UNCHANGED <<now, revoked, exists, cache, req, stages, token, user_id,
                   result, resp, hits, invoked, expired, dropped>>

\* What a helix GET made with token tok can fail with.
HelixFailures(tok) ==
    IF tok <= revoked THEN {HelixError(UNAUTHORIZED), TransportError}
    ELSE {HelixError(INTERNAL_SERVER_ERROR), TransportError}

\* A conversion that turns an absent channel into a default id.
ChannelResultDefault(maybe_channel, user_name) ==
    IF maybe_channel = <<>> THEN Ok(0) ELSE Ok(maybe_channel[1])

\* maybe_channel.map(|c| c.broadcaster_id).ok_or_else(|| UnknownChannel(..))
ChannelResult(maybe_channel, user_name) ==
    IF maybe_channel = <<>> THEN Err(UnknownChannel(user_name))
    ELSE Ok(maybe_channel[1])

\* The body of get_user_id: get_channel_from_login answers.
get_user_id(t) ==
    /\ pc[t] = "inner" /\ Cur(t) = "resolver"
    /\ LET user_name == req[t].name
           maybe_channel == IF Login(user_name) \in exists
                            THEN <<UserIdOf(Login(user_name))>> ELSE <<>>
       IN  \/ /\ token[t] > revoked
              /\ inner' = [inner EXCEPT ![t] = ChannelResult(maybe_channel, user_name)]
           \/ \E e \in HelixFailures(token[t]) :
                 inner' = [inner EXCEPT ![t] = Err(handle_helix_error(e))]
    /\ pc' = [pc EXCEPT ![t] = "set"]
    /\ UNCHANGED <<env, cache, req, stages, token, user_id, result, resp, hits,
                   invoked, expired, dropped>>

\* The body of get_user_videos: req_get answers with the listing's data.
get_user_videos(t) ==
    /\ pc[t] = "inner" /\ Cur(t) = "lister"
    /\ \/ /\ token[t] > revoked
          /\ \E videos \in VideoLists : inner' = [inner EXCEPT ![t] = Ok(videos)]
       \/ \E e \in HelixFailures(token[t]) :
             inner' = [inner EXCEPT ![t] = Err(handle_helix_error(e))]
    /\ pc' = [pc EXCEPT ![t] = "set"]
    /\ UNCHANGED <<env, cache, req, stages, token, user_id, result, resp, hits,
                   invoked, expired, dropped>>

\* The locked store that closes every #[cached] function: an Ok result is
\* stored, and the result, Ok or Err, is returned to the handler.
cached_store(t) ==
    /\ pc[t] = "set"
    /\ LET s == Cur(t)
           r == inner[t]
       IN  /\ cache' = [cache EXCEPT ![s] = Store(s, Key(t, s), r)]
           /\ Handler(t, r, hits[t])
    /\ UNCHANGED <<env, req, invoked, dropped>>

\* A store that, finding the key already stored by another caller, returns
\* that entry instead of its own result.
CachedSetShared(t) ==
    IF pc[t] = "set" /\ Key(t, Cur(t)) \in DOMAIN cache[Cur(t)]
    THEN /\ Handler(t, Ok(cache[Cur(t)][Key(t, Cur(t))].value), hits[t])
         /\ UNCHANGED <<env, cache, req, invoked, dropped>>
    ELSE cached_store(t)

\* A store that evicts the token entry when the platform answered 401.
CachedSetEvictToken(t) ==
    IF pc[t] = "set" /\ inner[t] = Err(Unauthorized)
    THEN /\ cache' = [cache EXCEPT !["token"] = <<>>]
         /\ Handler(t, inner[t], hits[t])
         /\ UNCHANGED <<env, req, invoked, dropped>>
    ELSE cached_store(t)

CachedSet(t) == cached_store(t)

\* An abandonment that detaches the computation instead of dropping it.
DropDetached(t) ==
    /\ pc[t] \in {"get", "inner", "set"}
    /\ dropped[t] = ""
    /\ dropped' = [dropped EXCEPT ![t] = pc[t]]
    /\ UNCHANGED <<env, cache, pc, req, stages, token, user_id, inner, result,
                   resp, hits, invoked, expired>>

\* The client disconnects: hyper drops the handler's future at its current
\* await point, and with it the inner(..) future it owns.
Drop(t) ==
    /\ pc[t] \in {"get", "inner", "set"}
    /\ pc' = [pc EXCEPT ![t] = "dropped"]
    /\ dropped' = [dropped EXCEPT ![t] = pc[t]]
    /\ inner' = [inner EXCEPT ![t] = NoResult]
    /\ token' = [token EXCEPT ![t] = 0]
    /\ user_id' = [user_id EXCEPT ![t] = 0]
    /\ expired' = [expired EXCEPT ![t] = FALSE]
    /\ UNCHANGED <<env, cache, req, stages, result, resp, hits, invoked>>

\* ----------------------------------------------------------- environment
Advance ==
    /\ now + Tick <= MaxTicks * Tick
    /\ now' = now + Tick
    /\ UNCHANGED <<minted, revoked, exists, cache, pc, req, stages, token,
                   user_id, inner, result, resp, hits, invoked, expired, dropped>>

\* The platform revokes every token issued so far.
Revoke ==
    /\ revoked < minted
    /\ revoked' = minted
    /\ UNCHANGED <<now, minted, exists, cache, pc, req, stages, token, user_id,
                   inner, result, resp, hits, invoked, expired, dropped>>

\* A channel is created on the platform.
CreateChannel(login) ==
    /\ login \notin exists
    /\ exists' = exists \cup {login}
    /\ UNCHANGED <<now, minted, revoked, cache, pc, req, stages, token, user_id,
                   inner, result, resp, hits, invoked, expired, dropped>>

Next ==
    \/ \E t \in Tasks, route \in Routes, name \in Names : Start(t, route, name)
    \/ \E t \in Tasks : CachedGet(t)
    \/ \E t \in Tasks : get_token(t)
    \/ \E t \in Tasks : get_user_id(t)
    \/ \E t \in Tasks : get_user_videos(t)
    \/ \E t \in Tasks : CachedSet(t)
    \/ \E t \in Tasks : Drop(t)
    \/ Advance
    \/ Revoke
    \/ \E login \in Logins : CreateChannel(login)

Spec == Init /\ [][Next]_vars

\* The steps of request t: its lookups, its upstream calls and its stores.
Step(t) ==
    CachedGet(t) \/ get_token(t) \/ get_user_id(t) \/ get_user_videos(t)
        \/ CachedSet(t)

\* The executor polls every request that can proceed, the cache locks are
\* released after each lookup and store, and every upstream call completes.
Fairness == \A t \in Tasks : WF_vars(Step(t))

\* The server some time after it answered a /chan/vod request: the three
\* entries that request stored are fresh, partly expired or all expired, the
\* token it minted may have been revoked since, and the channel may be gone.
LiveInit ==
    /\ now \in {n * Tick : n \in 0..MaxTicks}
    /\ minted = 1
    /\ revoked \in {0, 1}
    /\ exists \in SUBSET Logins
    /\ cache = [s \in Stages |->
                 CASE s = "token" -> (Cred :> [value |-> 1, stamp |-> 0])
                   [] s = "resolver" -> ("chan" :> [value |-> UserIdOf("chan"), stamp |-> 0])
                   [] s = "lister" ->
                        (UserIdOf("chan") :> [value |-> <<Video1, Video2>>, stamp |-> 0])]
    /\ pc = [t \in Tasks |-> "idle"]
    /\ req = [t \in Tasks |-> NoReq]
    /\ stages = [t \in Tasks |-> <<>>]
    /\ token = [t \in Tasks |-> 0]
    /\ user_id = [t \in Tasks |-> 0]
    /\ inner = [t \in Tasks |-> NoResult]
    /\ result = [t \in Tasks |-> NoResult]
    /\ resp = [t \in Tasks |-> NoResp]
    /\ hits = [t \in Tasks |-> {}]
    /\ invoked = [t \in Tasks |-> {}]
    /\ expired = [t \in Tasks |-> FALSE]
    /\ dropped = [t \in Tasks |-> ""]

\* Two requests arrive and are served while the clock and the platform stay
\* as they are.
LiveNext ==
    \/ \E t \in Tasks, route \in Routes, name \in Names : Start(t, route, name)
    \/ \E t \in Tasks : Step(t)
    \/ \E t \in Tasks : Drop(t)

LiveSpec == LiveInit /\ [][LiveNext]_vars /\ Fairness

\* ------------------------------------------------- the feed builder alone
\* The video records a listing is drawn from: with and without description,
\* and thumbnail templates with both placeholders, a repeated one, or none.
MaxVideos == 2         \* a listing holds at most MaxVideos records
Templates == {<<"https://th/", "%{width}", "x", "%{height}", ".jpg">>,
              <<"%{height}", "%{width}", "%{width}">>,
              <<"https://th/plain.jpg">>}
Videos == {[id |-> id, title |-> "title of " \o id, url |-> "https://vod/" \o id,
            thumbnail_url |-> th, description |-> d, created_at |-> 1672531200]
             : id \in {"v1", "v2"}, th \in Templates, d \in {"", "about"}}
Listings == UNION {[1..n -> Videos] : n \in 0..MaxVideos}

\* `channel` serving /chan/vod twice: request 1 holds the listing the platform
\* answered with and is about to store it, request 2 is about to look it up.
FeedInit ==
    /\ now = 0 /\ minted = 1 /\ revoked = 0 /\ exists = {"chan"}
    /\ cache = [s \in Stages |->
                 CASE s = "token" -> (Cred :> [value |-> 1, stamp |-> 0])
                   [] s = "resolver" -> ("chan" :> [value |-> UserIdOf("chan"), stamp |-> 0])
                   [] s = "lister" -> <<>>]
    /\ pc = [t \in Tasks |-> IF t = 1 THEN "set" ELSE "get"]
    /\ req = [t \in Tasks |-> [route |-> "vod", name |-> "chan"]]
    /\ stages = [t \in Tasks |-> <<"token", "resolver", "lister">>]
    /\ token = [t \in Tasks |-> 1]
    /\ user_id = [t \in Tasks |-> UserIdOf("chan")]
    /\ \E videos \in Listings :
          inner = [t \in Tasks |-> IF t = 1 THEN Ok(videos) ELSE NoResult]
    /\ result = [t \in Tasks |-> NoResult]
    /\ resp = [t \in Tasks |-> NoResp]
    /\ hits = [t \in Tasks |-> IF t = 1 THEN {} ELSE {"token", "resolver"}]
    /\ invoked = [t \in Tasks |-> IF t = 1 THEN Stages ELSE {}]
    /\ expired = [t \in Tasks |-> FALSE]
    /\ dropped = [t \in Tasks |-> ""]

FeedNext ==
    \/ \E t \in Tasks : CachedGet(t)
    \/ \E t \in Tasks : get_user_videos(t)
    \/ \E t \in Tasks : CachedSet(t)

FeedSpec == FeedInit /\ [][FeedNext]_vars

\* ------------------------------------------------- notions used by claims
Pipeline == <<"token", "resolver", "lister", "feed">>

IsPrefix(a, b) == Len(a) <= Len(b) /\ \A i \in 1..Len(a) : a[i] = b[i]

\* The key request t uses at stage s, from the request alone.
ReqKey(t, s) == CASE s = "token" -> Cred
                  [] s = "resolver" -> req[t].name
                  [] s = "lister" -> UserIdOf(Login(req[t].name))

Keys(s) == {ReqKey(t, s) : t \in Tasks}

\* Task t takes its lookup step / its store step (and is not abandoned).
Looks(t) == /\ pc[t] = "get"
            /\ pc'[t] # "dropped"
            /\ (pc'[t] # "get" \/ stages'[t] # stages[t])
Stores(t) == pc[t] = "set" /\ pc'[t] \notin {"set", "dropped"}

\* The handler of t receives r from the stage it awaits.
Receives(t, r) ==
    IF ~r.ok THEN pc'[t] = "done" /\ result'[t] = Err(r.err)
    ELSE CASE Cur(t) = "token" -> pc'[t] = "get" /\ token'[t] = r.val[1]
           [] Cur(t) = "resolver" /\ req[t].route = "id" ->
                pc'[t] = "done" /\ result'[t] = Ok(ToString(r.val[1]))
           [] Cur(t) = "resolver" /\ req[t].route = "vod" ->
                pc'[t] = "get" /\ user_id'[t] = r.val[1]
           [] Cur(t) = "lister" ->
                /\ pc'[t] = "done" /\ result'[t].ok
                /\ result'[t].val[1] = Feed(req[t].name, r.val[1])

\* ----------------------------------------------------------------- C1
\* C1 (as stated): single-flight -- for any key of any of the three caches at
\* most one upstream computation is in flight at any instant.
C1_SingleFlight ==
    \A s \in Stages : \A k \in Keys(s) : Cardinality(InFlight(s, k)) <= 1

\* C1 (amended): there is no single-flight -- a caller whose lookup misses
\* starts its own upstream computation even while another computation for
\* the same key is in flight, so N callers that all miss invoke the producer
\* N times, each exactly once.
C1_EveryMissComputes ==
    [][\A t \in Tasks :
          (/\ Looks(t)
           /\ InFlight(Cur(t), Key(t, Cur(t))) # {}
           /\ cache_get(Cur(t), Key(t, Cur(t))).status # "hit")
          => /\ pc'[t] = "inner"
             /\ invoked'[t] = invoked[t] \cup {Cur(t)}
             /\ InFlight(Cur(t), Key(t, Cur(t)))'
                  = InFlight(Cur(t), Key(t, Cur(t))) \cup {t}]_vars

\* Two computations for one key are in flight together.
C1_TwoInFlight ==
    \E t, u \in Tasks :
        /\ t # u /\ pc[t] = "inner" /\ pc[u] = "inner"
        /\ Cur(t) = Cur(u) /\ Key(t, Cur(t)) = Key(u, Cur(u))

\* ----------------------------------------------------------------- C2
\* C2 (as stated): calls for one key that overlap with a computation in
\* flight all receive the same outcome, value or error.
C2_SameOutcome ==
    \A t, u \in Tasks :
        (/\ pc[t] = "set" /\ pc[u] = "set"
         /\ Cur(t) = Cur(u) /\ Key(t, Cur(t)) = Key(u, Cur(u)))
        => inner[t] = inner[u]

\* C2 (amended): every call that misses returns the outcome of its own
\* producer invocation, value or error, whatever other calls for the key are
\* in flight; overlapping calls for one key can return different outcomes.
C2_OwnOutcome ==
    [][\A t \in Tasks : Stores(t) => Receives(t, inner[t])]_vars

\* Two overlapping calls for one key hold different outcomes.
C2_DifferentOutcomes ==
    \E t, u \in Tasks :
        /\ pc[t] = "set" /\ pc[u] = "set"
        /\ Cur(t) = Cur(u) /\ Key(t, Cur(t)) = Key(u, Cur(u))
        /\ inner[t].ok /\ ~inner[u].ok

\* ----------------------------------------------------------------- C3
\* C3: a lookup that finds a non-expired entry returns the stored value and
\* does not invoke the producer.
C3_HitNoProducer ==
    [][\A t \in Tasks :
          LET s == Cur(t)
              k == Key(t, s)
          IN  (/\ Looks(t)
               /\ k \in DOMAIN cache[s]
               /\ now < cache[s][k].stamp + TTL(s))
              => /\ invoked'[t] = invoked[t]
                 /\ pc'[t] # "inner"
                 /\ cache' = cache
                 /\ Receives(t, Ok(cache[s][k].value))]_vars

\* A request was served a token from the cache right after it was stored.
C3_ServedFromCache ==
    \E t \in Tasks :
        /\ pc[t] = "done" /\ result[t].ok
        /\ "token" \in hits[t] /\ "token" \notin invoked[t]
        /\ Cred \in DOMAIN cache["token"] /\ cache["token"][Cred].stamp = now

\* ----------------------------------------------------------------- C4
\* C4: a lookup made at or after the entry's expiry (stamp + 1200 s for the
\* token cache, stamp + 600 s for the two others) never returns the entry: it
\* invokes the producer again.
C4_NoStaleRead ==
    [][\A t \in Tasks :
          LET s == Cur(t)
              k == Key(t, s)
          IN  (/\ Looks(t)
               /\ k \in DOMAIN cache[s]
               /\ now >= cache[s][k].stamp + (IF s = "token" THEN 1200 ELSE 600))
              => /\ pc'[t] = "inner"
                 /\ s \in invoked'[t]
                 /\ hits'[t] = hits[t]
                 /\ k \notin DOMAIN cache'[s]]_vars

\* A producer runs again because the lookup found the entry expired.
C4_ExpiredSeen ==
    \E t \in Tasks : pc[t] = "inner" /\ expired[t] /\ Cur(t) \in invoked[t]

\* ----------------------------------------------------------------- C5
\* C5: a failed producer stores nothing and its error is returned to the
\* caller; a call that finds no entry invokes the producer (no negative
\* caching, no backoff).
C5_NoPoisoning ==
    [][\A t \in Tasks :
          /\ (Stores(t) /\ ~inner[t].ok)
              => /\ cache' = cache
                 /\ pc'[t] = "done"
                 /\ result'[t] = Err(inner[t].err)
          /\ (Looks(t) /\ Key(t, Cur(t)) \notin DOMAIN cache[Cur(t)])
              => pc'[t] = "inner" /\ Cur(t) \in invoked'[t]]_vars

\* After one request failed at the token stage, another invoked the producer
\* for the same key and succeeded.
C5_RetryAfterFailure ==
    \E t, u \in Tasks :
        /\ pc[t] = "done" /\ result[t].err.kind = "Token"
        /\ pc[u] = "done" /\ result[u].ok /\ "token" \in invoked[u]

\* ----------------------------------------------------------------- C6
\* C6: when the platform knows no channel for the handle, get_user_id returns
\* UnknownChannel(handle) and stores nothing; the resolver cache never holds
\* an absence, so a later call queries the platform again.
C6_UnknownNeverCached ==
    /\ [](\A k \in DOMAIN cache["resolver"] :
             /\ Login(k) \in exists
             /\ cache["resolver"][k].value = UserIdOf(Login(k)))
    /\ [][\A t \in Tasks :
            /\ (pc[t] = "inner" /\ pc'[t] = "set" /\ Cur(t) = "resolver"
                /\ Login(req[t].name) \notin exists)
                => /\ ~inner'[t].ok
                   /\ (token[t] > revoked =>
                         inner'[t].err \in {UnknownChannel(req[t].name),
                                            RequestError(ErrorText(TransportError)),
                                            RequestError(ErrorText(HelixError(500)))})
            /\ (Stores(t) /\ inner[t].err.kind = "UnknownChannel")
                => /\ cache' = cache
                   /\ result'[t] = Err(UnknownChannel(req[t].name))]_vars

\* A handle that was unknown to one request resolves for another.
C6_FoundAfterMiss ==
    \E t, u \in Tasks :
        /\ pc[t] = "done" /\ result[t].err.kind = "UnknownChannel"
        /\ pc[u] = "done" /\ result[u].ok /\ "resolver" \in invoked[u]
        /\ req[u].name = req[t].name

\* ----------------------------------------------------------------- C7
\* C7: a 401 from the platform surfaces as Unauthorized and any other
\* upstream failure as RequestError, in the resolver and in the lister; in
\* both cases nothing is stored for the key.
C7_Unauthorized ==
    /\ [](\A t \in Tasks :
             (pc[t] = "set" /\ Cur(t) \in {"resolver", "lister"} /\ ~inner[t].ok)
             => /\ inner[t].err.kind \in {"Unauthorized", "RequestError", "UnknownChannel"}
                /\ inner[t].err.kind = "Unauthorized" => token[t] <= revoked
                /\ inner[t].err.kind = "RequestError" =>
                     inner[t].err.payload # ErrorText(HelixError(401)))
    /\ [][\A t \in Tasks :
            (Stores(t) /\ inner[t].err.kind \in {"Unauthorized", "RequestError"})
            => /\ cache' = cache
               /\ result'[t] = Err(inner[t].err)]_vars

\* Both kinds were returned: Unauthorized by one request, RequestError by
\* another.
C7_BothKinds ==
    \E t, u \in Tasks :
        /\ pc[t] = "done" /\ result[t] = Err(Unauthorized)
        /\ pc[u] = "done" /\ result[u].err.kind = "RequestError"
        /\ Cur(u) = "lister"

\* ----------------------------------------------------------------- C8
\* C8 (as stated): when the caller that started a computation abandons its
\* request before the upstream call completes, the computation stays in
\* flight.
C8_ComputationSurvives ==
    [][\A t \in Tasks :
          (pc[t] = "inner" /\ dropped'[t] # dropped[t])
          => InFlight(Cur(t), Key(t, Cur(t)))' # {}]_vars

\* C8 (amended): the computation is part of the caller's request and is
\* abandoned with it: it never completes, returns nothing and stores
\* nothing, so after it the key has an entry only if another request
\* computed it.
C8_AbandonedWithCaller ==
    \A t \in Tasks :
        dropped[t] # ""
        => /\ pc[t] = "dropped"
           /\ inner[t] = NoResult /\ result[t] = NoResult
           /\ (/\ dropped[t] \in {"inner", "set"}
               /\ ReqKey(t, Cur(t)) \in DOMAIN cache[Cur(t)])
              => \E u \in Tasks \ {t} :
                    Cur(t) \in invoked[u] /\ ReqKey(u, Cur(t)) = ReqKey(t, Cur(t))

\* A request was abandoned during its upstream call, and its key has no
\* entry although the other request has ended.
C8_DroppedInFlight ==
    \E t, u \in Tasks :
        /\ t # u /\ dropped[t] = "inner" /\ pc[u] = "done"
        /\ ReqKey(t, Cur(t)) \notin DOMAIN cache[Cur(t)]

\* ----------------------------------------------------------------- C9
\* C9: a feed request enters the stages in the order token, resolver,
\* lister, feed builder, stops at the first stage that fails and returns
\* that stage's error unchanged.
C9_PipelineOrder ==
    /\ [](\A t \in Tasks :
             /\ IsPrefix(stages[t], Pipeline)
             /\ hits[t] \cup invoked[t] \subseteq {stages[t][i] : i \in DOMAIN stages[t]}
             /\ (pc[t] = "done" /\ req[t].route = "vod")
                => /\ result[t].ok <=> stages[t] = Pipeline
                   /\ ~result[t].ok =>
                        /\ Cur(t) \in invoked[t]
                        /\ result[t].err.kind \in
                             CASE Cur(t) = "token" -> {"Token"}
                               [] Cur(t) = "resolver" ->
                                    {"UnknownChannel", "Unauthorized", "RequestError"}
                               [] Cur(t) = "lister" -> {"Unauthorized", "RequestError"})
    /\ [][\A t \in Tasks :
            (Stores(t) /\ ~inner[t].ok)
            => /\ result'[t] = Err(inner[t].err)
               /\ stages'[t] = stages[t]
               /\ invoked'[t] = invoked[t] /\ hits'[t] = hits[t]]_vars

\* A feed request stopped at the resolver with UnknownChannel.
C9_StoppedAtResolver ==
    \E t \in Tasks :
        /\ pc[t] = "done" /\ req[t].route = "vod"
        /\ stages[t] = <<"token", "resolver">>
        /\ result[t] = Err(UnknownChannel(req[t].name))

\* ---------------------------------------------------------------- C10
\* C10: the response status is 404 exactly for UnknownChannel, 500 for every
\* other error kind and 200 when there is no error.
C10_StatusMapping ==
    \A t \in Tasks :
        pc[t] = "done"
        => /\ resp[t].status = 404 <=> result[t].err.kind = "UnknownChannel"
           /\ result[t].err.kind \in {"Token", "Unauthorized", "RequestError"}
                => resp[t].status = 500
           /\ result[t].ok <=> resp[t].status = 200

\* One request ended with 404 and another with 500 for Unauthorized.
C10_NotFoundAndError ==
    \E t, u \in Tasks :
        /\ pc[t] = "done" /\ resp[t].status = 404
        /\ pc[u] = "done" /\ resp[u].status = 500
        /\ result[u].err.kind = "Unauthorized"

\* ---------------------------------------------------------------- C11
\* C11: no lock is held across an upstream call -- while a computation is
\* awaiting its upstream call, a caller at its lookup, for the same cache or
\* another, can take the lookup at once, and a caller holding its producer's
\* result can take the store at once; neither step disturbs the computation
\* in flight.
C11_NoLockAcrossUpstream ==
    /\ [](\A t, u \in Tasks :
            (t # u /\ pc[u] = "inner")
            => /\ pc[t] = "get" => ENABLED CachedGet(t)
               /\ pc[t] = "set" => ENABLED CachedSet(t))
    /\ [][\A t, u \in Tasks :
            (t # u /\ pc[u] = "inner" /\ (Looks(t) \/ Stores(t)))
            => /\ pc'[u] = "inner" /\ inner'[u] = inner[u]
               /\ stages'[u] = stages[u]]_vars

\* Two computations of one cache, for different keys, await their upstream
\* calls together: the later lookup was taken while the earlier computation
\* was in flight.
C11_DifferentKeysInFlight ==
    \E t, u \in Tasks :
        /\ t # u /\ pc[t] = "inner" /\ pc[u] = "inner"
        /\ Cur(t) = "resolver" /\ Cur(u) = "resolver"
        /\ Key(t, "resolver") # Key(u, "resolver")

\* ---------------------------------------------------------------- C12
\* C12: an Unauthorized result of the resolver or of the lister is returned
\* with the token cache left as it is; as long as the token entry is younger
\* than its ttl every request is handed that token, revoked or not, every
\* upstream call made with a revoked token fails, and a new token is
\* requested only by a lookup that finds the entry absent or expired.
C12_TokenKeptOnUnauthorized ==
    [][\A t \in Tasks :
          LET held == Cred \in DOMAIN cache["token"]
              young == now < cache["token"][Cred].stamp + TokenTTL
          IN  /\ (Stores(t) /\ inner[t] = Err(Unauthorized))
                 => /\ cache'["token"] = cache["token"]
                    /\ pc'[t] = "done" /\ result'[t] = Err(Unauthorized)
              /\ (Looks(t) /\ Cur(t) = "token" /\ held /\ young)
                 => /\ token'[t] = cache["token"][Cred].value
                    /\ pc'[t] = "get" /\ Cur(t)' = "resolver"
              /\ (Looks(t) /\ Cur(t) = "token" /\ pc'[t] = "inner")
                 => (~held \/ ~young)
              /\ (/\ pc[t] = "inner" /\ pc'[t] = "set"
                  /\ Cur(t) \in {"resolver", "lister"}
                  /\ token[t] <= revoked)
                 => ~inner'[t].ok
              /\ minted' # minted
                 => \E u \in Tasks : /\ pc[u] = "inner" /\ Cur(u) = "token"
                                     /\ "token" \in invoked[u]]_vars

\* Both requests failed with Unauthorized, one of them on the revoked token
\* it was handed from the cache, and the revoked token is still cached.
C12_RevokedTokenStillServed ==
    \E t, u \in Tasks :
        /\ t # u
        /\ pc[t] = "done" /\ result[t] = Err(Unauthorized)
        /\ pc[u] = "done" /\ result[u] = Err(Unauthorized)
        /\ "token" \in hits[t]
        /\ Cred \in DOMAIN cache["token"]
        /\ cache["token"][Cred].value <= revoked
        /\ now < cache["token"][Cred].stamp + TokenTTL

\* ---------------------------------------------------------------- C13
\* The listing the handler of t is about to be handed by the lister, from
\* its producer or from the cache; <<>> when t is not at that point.
Handed(t) ==
    IF Cur(t) # "lister" THEN <<>>
    ELSE IF pc[t] = "set" /\ inner[t].ok THEN inner[t].val
    ELSE IF /\ pc[t] = "get"
            /\ user_id[t] \in DOMAIN cache["lister"]
            /\ now < cache["lister"][user_id[t]].stamp + VideoTTL
         THEN <<cache["lister"][user_id[t]].value>>
    ELSE <<>>

\* The layout of a record's description, piece by piece.
Layout(v) ==
    LET image == [i \in DOMAIN v.thumbnail_url |->
                     CASE v.thumbnail_url[i] = "%{width}" -> "512"
                       [] v.thumbnail_url[i] = "%{height}" -> "288"
                       [] OTHER -> v.thumbnail_url[i]]
        head == <<"<a href=\"", v.url, "\"><img src=\"">> \o image \o <<"\" /></a>">>
    IN  IF v.description = "" THEN head \o <<"<br />", v.title>>
        ELSE head \o <<"<br />", v.description, "<br />", v.title>>

Breaks(d) == Cardinality({i \in DOMAIN d : d[i] = "<br />"})

\* C13: every item's description is the anchor (link = the record's url,
\* image = the thumbnail template with %{width} -> 512 and %{height} -> 288),
\* then a line break and the description only when it is not empty, then a
\* line break and the title; an empty description leaves one line break.
C13_DescriptionLayout ==
    [][\A t \in Tasks :
          (Handed(t) # <<>> /\ (Looks(t) \/ Stores(t)))
          => LET videos == Handed(t)[1]
                 items == result'[t].val[1].items
             IN  /\ pc'[t] = "done" /\ result'[t].ok
                 /\ DOMAIN items = DOMAIN videos
                 /\ \A i \in DOMAIN videos :
                       /\ items[i].description = Layout(videos[i])
                       /\ videos[i].description = ""
                          => Breaks(items[i].description) = 1
                       /\ videos[i].description # ""
                          => Breaks(items[i].description) = 2]_vars

\* A feed was built from a record without description whose template
\* repeats a placeholder, and from one with a description.
C13_BothLayouts ==
    \E t \in Tasks :
        /\ pc[t] = "done" /\ result[t].ok
        /\ Len(result[t].val[1].items) = 2
        /\ Breaks(result[t].val[1].items[1].description) = 1
        /\ result[t].val[1].items[1].description[4] = "288"
        /\ result[t].val[1].items[1].description[5] = "512"
        /\ result[t].val[1].items[1].description[6] = "512"
        /\ Breaks(result[t].val[1].items[2].description) = 2

\* ---------------------------------------------------------------- C14
\* C14: the feed holds one item per record of the listing the lister handed
\* over, in the listing's order, whether the listing came from the producer
\* or from the cache, and the cache stores the listing as the producer
\* returned it: nothing is reordered, dropped or duplicated.
C14_OrderPreserved ==
    [][\A t \in Tasks :
          /\ (Handed(t) # <<>> /\ (Looks(t) \/ Stores(t)))
             => LET videos == Handed(t)[1]
                    items == result'[t].val[1].items
                IN  /\ Len(items) = Len(videos)
                    /\ \A i \in 1..Len(videos) :
                          /\ items[i].guid = videos[i].id
                          /\ items[i].title = videos[i].title
          /\ (Handed(t) # <<>> /\ Stores(t))
             => cache'["lister"][user_id[t]].value = inner[t].val[1]
          /\ (Handed(t) # <<>> /\ Looks(t))
             => cache'["lister"] = cache["lister"]]_vars

\* A feed served from the cache lists v2 before v1, as the listing did.
C14_CachedListingInOrder ==
    \E t \in Tasks :
        /\ pc[t] = "done" /\ result[t].ok /\ "lister" \in hits[t]
        /\ Len(result[t].val[1].items) = 2
        /\ result[t].val[1].items[1].guid = "v2"
        /\ result[t].val[1].items[2].guid = "v1"
        /\ cache["lister"][UserIdOf("chan")].value[1].id = "v2"

\* ---------------------------------------------------------------- C15
\* C15: an item's guid is the record's id and its link the record's url,
\* unmodified; a feed built from the cached listing has the same items as the
\* feed built earlier from that listing; building from the cached listing
\* writes no cache, and no build changes the clock or the platform.
C15_StableIdentity ==
    [][\A t \in Tasks :
          (Handed(t) # <<>> /\ (Looks(t) \/ Stores(t)))
          => LET videos == Handed(t)[1]
                 items == result'[t].val[1].items
             IN  /\ \A i \in DOMAIN videos :
                       /\ items[i].guid = videos[i].id
                       /\ items[i].link = videos[i].url
                       /\ items[i].pub_date = <<"rfc2822", videos[i].created_at>>
                 /\ Looks(t)
                    => /\ cache' = cache
                       /\ \A u \in Tasks \ {t} :
                             (/\ pc[u] = "done" /\ result[u].ok
                              /\ "lister" \in invoked[u])
                             => items = result[u].val[1].items
                 /\ env' = env]_vars

\* Two feeds were built from one listing, the second from the cache, and
\* their first item carries the record's id and url.
C15_BuiltTwice ==
    \E t, u \in Tasks :
        /\ pc[t] = "done" /\ result[t].ok /\ "lister" \in hits[t]
        /\ pc[u] = "done" /\ result[u].ok /\ "lister" \in invoked[u]
        /\ result[t].val[1].items = result[u].val[1].items
        /\ Len(result[t].val[1].items) = 2
        /\ result[t].val[1].items[1].guid = "v1"
        /\ result[t].val[1].items[1].link = "https://vod/v1"

\* ---------------------------------------------------------------- C16
\* C16: an entry is created or replaced only by the store of a successful
\* computation for its own key, which stamps it with the time of the store;
\* no other step, a hit included, changes its value or its stamp, so it
\* expires ttl seconds after the store; it is removed only by a lookup of
\* its key that finds it expired.
C16_EntryLifecycle ==
    [][\A s \in Stages : \A k \in DOMAIN cache[s] \cup DOMAIN cache'[s] :
          LET had == k \in DOMAIN cache[s]
              has == k \in DOMAIN cache'[s]
          IN  /\ (has /\ (~had \/ cache'[s][k] # cache[s][k]))
                 => \E t \in Tasks :
                       /\ Stores(t) /\ Cur(t) = s /\ Key(t, s) = k
                       /\ inner[t].ok
                       /\ cache'[s][k] = [value |-> inner[t].val[1], stamp |-> now]
              /\ (had /\ ~has)
                 => \E t \in Tasks :
                       /\ Looks(t) /\ Cur(t) = s /\ Key(t, s) = k
                       /\ now >= cache[s][k].stamp + TTL(s)]_vars

\* A request holds the token it was handed from the cache, and the entry,
\* stored one tick ago, still carries the stamp of its store.
C16_HitKeepsStamp ==
    \E t \in Tasks :
        /\ pc[t] \in {"get", "inner", "set"} /\ "token" \in hits[t]
        /\ Cred \in DOMAIN cache["token"]
        /\ cache["token"][Cred].value = token[t]
        /\ cache["token"][Cred].stamp + Tick = now

\* ---------------------------------------------------------------- C17
\* C17: the lookup or the store of a call for key k of one cache, whether it
\* hits, misses, succeeds or fails, leaves every entry of another key of
\* that cache and every entry of the two other caches as it was.
C17_KeyAndCacheIndependence ==
    [][\A t \in Tasks :
          (Looks(t) \/ Stores(t))
          => \A s \in Stages : \A k \in DOMAIN cache[s] \cup DOMAIN cache'[s] :
                (s # Cur(t) \/ k # Key(t, Cur(t)))
                => /\ k \in DOMAIN cache[s] /\ k \in DOMAIN cache'[s]
                   /\ cache'[s][k] = cache[s][k]]_vars

\* The resolver cache holds both handles, stored at different times, next to
\* the token entry and a listing.
C17_NeighboursKept ==
    /\ DOMAIN cache["resolver"] = Names
    /\ cache["resolver"]["chan"].stamp # cache["resolver"]["Chan"].stamp
    /\ Cred \in DOMAIN cache["token"]
    /\ DOMAIN cache["lister"] # {}
    /\ \E t \in Tasks : pc[t] = "done" /\ result[t].ok /\ "resolver" \in invoked[t]

\* ---------------------------------------------------------------- C18
\* The resolver cache holds a non-expired entry stored under name.
Resolved(name) ==
    /\ name \in DOMAIN cache["resolver"]
    /\ now < cache["resolver"][name].stamp + UserTTL

\* C18 (as stated): handles that differ only in case are one resolver key --
\* once one spelling is resolved, a call with another spelling of the same
\* handle is served from the cache.
C18_CaseInsensitiveKey ==
    [][\A t \in Tasks :
          (/\ Looks(t) /\ Cur(t) = "resolver"
           /\ \E name \in Names : Login(name) = Login(req[t].name) /\ Resolved(name))
          => pc'[t] # "inner" /\ invoked'[t] = invoked[t]]_vars

\* C18 (amended): the resolver key is the handle as spelled in the request --
\* a call is a hit only on a non-expired entry stored under the same
\* spelling; with only another spelling of the handle resolved it misses and
\* calls the platform itself, and its result is stored under its own
\* spelling, next to the other one.
C18_CaseSensitiveKey ==
    [][\A t \in Tasks :
          /\ (Looks(t) /\ Cur(t) = "resolver")
             => IF Resolved(req[t].name)
                THEN /\ pc'[t] # "inner" /\ invoked'[t] = invoked[t]
                     /\ Receives(t, Ok(cache["resolver"][req[t].name].value))
                ELSE /\ pc'[t] = "inner"
                     /\ invoked'[t] = invoked[t] \cup {"resolver"}
          /\ (Stores(t) /\ Cur(t) = "resolver" /\ inner[t].ok)
             => /\ req[t].name \in DOMAIN cache'["resolver"]
                /\ cache'["resolver"][req[t].name]
                     = [value |-> inner[t].val[1], stamp |-> now]
                /\ \A name \in Names \ {req[t].name} :
                      /\ name \in DOMAIN cache'["resolver"]
                         <=> name \in DOMAIN cache["resolver"]
                      /\ name \in DOMAIN cache["resolver"]
                         => cache'["resolver"][name] = cache["resolver"][name]]_vars

\* /chan was resolved and answered, and a request for /Chan stands at its
\* lookup with only the entry of the other spelling in the cache.
C18_OtherSpellingResolved ==
    \E t, u \in Tasks :
        /\ pc[u] = "done" /\ result[u].ok /\ req[u].name = "chan"
        /\ "resolver" \in invoked[u]
        /\ pc[t] = "get" /\ Cur(t) = "resolver" /\ req[t].name = "Chan"
        /\ Resolved("chan") /\ ~Resolved("Chan")

\* ---------------------------------------------------------------- C19
\* C19: with every upstream call completing, every request that is being
\* served is eventually answered, with a value or an error, unless its
\* client disconnects first; no interleaving leaves a caller waiting.
C19_EveryCallReturns ==
    \A t \in Tasks :
        (pc[t] \in {"get", "inner", "set"}) ~> (pc[t] \in {"done", "dropped"})

\* Two requests missed the token cache together, each made its own upstream
\* calls, and both were answered with a value.
C19_OverlappingCallsReturned ==
    /\ \A t \in Tasks : pc[t] = "done" /\ result[t].ok /\ "token" \in invoked[t]
    /\ \E t \in Tasks : "resolver" \in invoked[t]

\* ---------------------------------------------------------------- C20
\* The lister cache holds a non-expired listing of the channel called name.
Listed(name) ==
    /\ UserIdOf(Login(name)) \in DOMAIN cache["lister"]
    /\ now < cache["lister"][UserIdOf(Login(name))].stamp + VideoTTL

\* C20: the token stage gates every request -- a request whose credential
\* exchange fails returns the Token error having entered no other stage and
\* read no other cache, whatever valid entries those hold, and leaves the
\* caches as they are; a request handed a cached token younger than its ttl
\* goes on to the resolver with it, and a request served from the caches
\* alone makes no upstream call and is answered with a value.
C20_TokenStageGates ==
    /\ [](\A t \in Tasks :
            /\ (pc[t] = "done" /\ result[t].err.kind = "Token")
               => /\ stages[t] = <<"token">>
                  /\ hits[t] = {} /\ invoked[t] = {"token"}
                  /\ resp[t].status = INTERNAL_SERVER_ERROR
            /\ (pc[t] = "done" /\ invoked[t] = {})
               => /\ result[t].ok /\ resp[t].status = OK
                  /\ hits[t] = {stages[t][i] : i \in 1..Len(stages[t])} \ {"feed"}
            /\ (pc[t] # "idle" /\ Len(stages[t]) > 1)
               => "token" \in hits[t] \cup invoked[t])
    /\ [][\A t \in Tasks :
            /\ (Stores(t) /\ Cur(t) = "token" /\ ~inner[t].ok)
               => /\ pc'[t] = "done" /\ result'[t] = inner[t]
                  /\ result'[t].err.kind = "Token"
                  /\ cache' = cache
            /\ (Looks(t) /\ pc'[t] # "inner")
               => /\ env' = env /\ invoked'[t] = invoked[t]
                  /\ Cur(t) \in hits'[t]]_vars

\* A request was answered with the Token error while the resolver and the
\* lister cache held valid entries for its channel.
C20_GatedDespiteEntries ==
    \E t \in Tasks :
        /\ pc[t] = "done" /\ result[t].err.kind = "Token"
        /\ req[t].route = "vod"
        /\ Resolved(req[t].name) /\ Listed(req[t].name)

====
